---- MODULE Spec2Model ----
(***************************************************************************)
(* A model of metrics-util's Registry<K, H> (src/metrics-util/src/         *)
(* registry.rs): a published immutable key -> (id, handle) map behind an   *)
(* ArcSwap, an id-ordered Vec behind a ShardedLock and a Mutex that        *)
(* serialises insertions, used by any number of threads.  Every statement  *)
(* of get_or_create_handle, with_handle and get_handles that touches the   *)
(* shared state is one step of the calling thread.  The module also holds  *)
(* metrics::Key (src/metrics/src/key.rs), the key type the recorders give  *)
(* the registry, and the handle wrappers of src/metrics/src/handles.rs.    *)
(***************************************************************************)
EXTENDS Naturals, Sequences, FiniteSets, TLC

\* Bounds of the model.
NThreads == 2
MaxCalls == 3
MaxHandles == 2
MaxSends == 2

Threads == 1..NThreads
\* The call frames: one for each thread's call, and one more for the call the
\* thread's factory may make into the registry while it runs.
Frames == 1..(2 * NThreads)
InnerFrames == (NThreads + 1)..(2 * NThreads)
Inner(t) == t + NThreads
Outer(f) == f - NThreads
\* The keys the callers use (K: Eq + Hash + Clone).
Keys == {"a", "b"}
\* The ids callers pass to with_handle: every id the table can hold, and one more.
IdArgs == 0..Cardinality(Keys)

VARIABLES
    mappings,   \* Registry.mappings: the published snapshot, a function key -> <<id, h>>
    handles,    \* Registry.handles: the id-ordered table, a sequence of <<key, h>>
    lock,       \* Registry.lock: 0 when free, else the thread holding the guard
    policy,     \* the ShardedLock's priority policy, which the build decides
    wpending,   \* the thread inside ShardedLock::write, waiting for the guard, or 0
    wguard,     \* the ShardedLock's write guard: 0 when free, else its holder
    rguards,    \* the threads holding a read guard of the ShardedLock
    poisoned,   \* the ShardedLock's poison flag
    heap,       \* the leaked boxes: heap[h] is the handle at address h
    pc,         \* each thread's position
    key,        \* get_or_create_handle's `key`
    fac,        \* get_or_create_handle's `f`
    arg,        \* with_handle's `id`
    loaded,     \* the snapshot a thread holds (`mappings` at line 66, `guard` at 106)
    id,         \* get_or_create_handle's `id`
    sh,         \* get_or_create_handle's `sh`
    ret,        \* what the thread's last call returned
    ncalls,     \* history: the number of calls started
    returned,   \* history: every <<key, id, h, path>> get_or_create_handle returned
    seen,       \* history: the <<id, h>> returned for the call's key before it started
    published,  \* history: the keys in the order their snapshots were stored
    accessed,   \* history: the (key, handle) pairs the call's accessor was invoked with
    busy,       \* history: whether the call returned while another thread's factory ran
    failed,     \* history: the keys whose factory failed
    retry,      \* history: whether the call's key had a failed factory before it started
    wrapper,    \* the handle wrappers built so far, each with the object it refers to
    delivered,  \* the calls the capability objects received: <<object, method, value>>
    made,       \* history: how each wrapper was built
    sent        \* history: the calls made on the wrappers: <<wrapper, method, value>>

shared == <<mappings, handles, lock, policy, wpending, wguard, rguards, poisoned, heap>>
locals == <<pc, key, fac, arg, loaded, id, sh, ret>>
history == <<ncalls, returned, seen, published, accessed, busy, failed, retry>>
wrappers == <<wrapper, delivered, made, sent>>
vars == <<shared, locals, history, wrappers>>

----------------------------------------------------------------------------
\* The data structures.

\* metrics::Key and metrics::Label (src/metrics/src/key.rs), the keys a
\* recorder hands to its registry.

\* Option<T>
None == <<"None">>
Some(x) == <<"Some", x>>

\* Label::new(key, value), and From<(K, V)> for Label
Label(k, v) == [key |-> k, value |-> v]

\* IntoLabels::into_labels: every pair becomes a Label, in the order given.
into_labels(pairs) == [p \in 1..Len(pairs) |-> Label(pairs[p][1], pairs[p][2])]

\* Key::from_name
from_name(n) == [name |-> n, labels |-> None]

\* Key::from_name_and_labels
from_name_and_labels(n, pairs) == [name |-> n, labels |-> Some(into_labels(pairs))]

\* Key::add_labels: labels.get_or_insert_with(Vec::new), then extend.
add_labels(k, pairs) ==
    LET old == IF k.labels = None THEN <<>> ELSE k.labels[2]
    IN [k EXCEPT !.labels = Some(old \o into_labels(pairs))]

\* Key::name
name(k) == k.name

\* Key::labels: the labels in order, none when the field is None.
labels(k) == IF k.labels = None THEN <<>> ELSE k.labels[2]

\* A bug: keys are compared with their labels taken as a set.
KeyEqUnordered(a, b) ==
    /\ a.name = b.name
    /\ {labels(a)[p] : p \in 1..Len(labels(a))} = {labels(b)[p] : p \in 1..Len(labels(b))}

\* K: Eq, which #[derive(PartialEq, Eq, Hash)] makes the equality of every
\* field: of the name and of the Option<Vec<Label>> for a Key.
KeyEq(a, b) == a = b

\* The names and the label collections the callers build keys from.
KeyNames == {"a", "b"}
LabelInputs ==
    {<<>>, <<<<"x", "1">>>>, <<<<"y", "2">>>>,
     <<<<"x", "1">>, <<"y", "2">>>>, <<<<"y", "2">>, <<"x", "1">>>>}

\* The keys of every construction path.
LabelledKeys ==
    {from_name(n) : n \in KeyNames}
    \cup {from_name_and_labels(n, ls) : n \in KeyNames, ls \in LabelInputs}
    \cup {add_labels(from_name(n), ls) : n \in KeyNames, ls \in LabelInputs}
    \cup {add_labels(from_name_and_labels(n, ls[1]), ls[2]) :
              n \in KeyNames,
              ls \in {x \in LabelInputs \X LabelInputs : Len(x[1]) + Len(x[2]) <= 2}}

\* ImmutableHashMap::new()
EmptyMap == [k \in {} |-> <<0, 0>>]

\* ImmutableHashMap::get: an Option, as a set of at most one element.
MapGet(mp, k) ==
    LET hit == {x \in DOMAIN mp : KeyEq(x, k)}
    IN IF hit # {} THEN {mp[CHOOSE x \in hit : TRUE]} ELSE {}

\* ImmutableHashMap::update: a new map, the old one is left as it was.
MapUpdate(mp, k, v) ==
    LET hit == {x \in DOMAIN mp : KeyEq(x, k)}
    IN [x \in ((DOMAIN mp) \ hit) \cup {k} |-> IF x = k THEN v ELSE mp[x]]

\* A bug: the update forgets the map it starts from.
MapReplace(mp, k, v) == [x \in {k} |-> v]

\* Line 84: mappings.update(key, (id, sh))
NewMappings(mp, k, v) == MapUpdate(mp, k, v)

\* A bug: the lookup under the lock is left out.
NoSecondLookup(mp, k) == {}

\* Line 67: mappings.get(&key), under the lock.
SecondLookup(mp, k) == MapGet(mp, k)

\* A bug: the identifier is one past the index the entry goes to.
NextIdOffByOne(tbl) == Len(tbl) + 1

\* Line 76: wg.len(), the identifier of the next entry.
NextId(tbl) == Len(tbl)

\* A bug: the entry goes to the front of the table.
PushFront(tbl, k, h) == <<<<k, h>>>> \o tbl

\* Line 80: Vec::push
Push(tbl, k, h) == Append(tbl, <<k, h>>)

\* A bug: an id past the end of the table yields the last slot.
VecGetClamped(tbl, i) ==
    IF tbl # <<>> THEN {tbl[IF i < Len(tbl) THEN i + 1 ELSE Len(tbl)]} ELSE {}

\* slice::get: an Option, as a set of at most one element.
VecGet(tbl, i) == IF i < Len(tbl) THEN {tbl[i + 1]} ELSE {}

\* Box::leak(Box::new(handle)): a fresh address, never freed.
Alloc(hp) == Len(hp) + 1

\* The handle f(id, &key) builds: it carries what it was built by and from.
Factory(f, i, k) == [fac |-> f, id |-> i, key |-> k]

\* The caller's accessor f(k, h): it returns what it was given.
Accessor(k, h) == <<k, h>>

\* A bug: the mutex admits a thread while a guard is out.
MutexNeverHeld(l) == TRUE

\* Mutex::lock goes on when no guard is out.
MutexFree(l) == l = 0

\* ShardedLock::write goes on when no guard of either kind is out.
CanWrite(w, rs) == w = 0 /\ rs = {}

\* A bug: a reader goes on while the table is being written.
ReadUnguarded(w, p) == TRUE

\* A bug: a reader takes the table for itself, as a writer does.
ReadExclusive(w, p) == w = 0 /\ rguards = {}

\* ShardedLock::read goes on when no write guard is out and, where the lock
\* puts writers first, no writer waits; which of the two a lock does is not
\* specified.
CanRead(w, p) == w = 0 /\ (policy = "writers_first" => p = 0)

\* A bug: the projection keeps the id of each entry, not its handle.
CollectIds(mp) == [k \in DOMAIN mp |-> mp[k][1]]

\* into_iter().map(|(k, (_, h))| (k, h)).collect::<HashMap<_, _>>()
Collect(mp) == [k \in DOMAIN mp |-> mp[k][2]]

----------------------------------------------------------------------------
Init ==
    /\ mappings = EmptyMap
    /\ handles = <<>>
    /\ lock = 0
    /\ policy \in {"readers_first", "writers_first"}
    /\ wpending = 0
    /\ wguard = 0
    /\ rguards = {}
    /\ poisoned = FALSE
    /\ heap = <<>>
    /\ pc = [t \in Frames |-> "idle"]
    /\ key = [t \in Frames |-> "a"]
    /\ fac = [t \in Frames |-> 0]
    /\ arg = [t \in Frames |-> 0]
    /\ loaded = [t \in Frames |-> EmptyMap]
    /\ id = [t \in Frames |-> 0]
    /\ sh = [t \in Frames |-> 0]
    /\ ret = [t \in Frames |-> <<"none">>]
    /\ ncalls = 0
    /\ returned = {}
    /\ seen = [t \in Frames |-> {}]
    /\ published = <<>>
    /\ accessed = [t \in Frames |-> <<>>]
    /\ busy = [t \in Frames |-> FALSE]
    /\ failed = {}
    /\ retry = [t \in Frames |-> FALSE]
    /\ wrapper = <<>>
    /\ delivered = <<>>
    /\ made = <<>>
    /\ sent = <<>>

\* A call starts at position p: what the thread's last call left is cleared.
Call(t, p) ==
    /\ pc[t] = "idle"
    /\ ncalls < MaxCalls
    /\ ncalls' = ncalls + 1
    /\ pc' = [pc EXCEPT ![t] = p]
    /\ ret' = [ret EXCEPT ![t] = <<"none">>]
    /\ accessed' = [accessed EXCEPT ![t] = <<>>]
    /\ busy' = [busy EXCEPT ![t] = FALSE]
    /\ UNCHANGED <<shared, loaded, id, sh, returned, published, failed, wrappers>>

\* A call returns v: the thread is idle again and its locals are gone.
Return(t, v) ==
    /\ pc' = [pc EXCEPT ![t] = "idle"]
    /\ ret' = [ret EXCEPT ![t] = v]
    /\ key' = [key EXCEPT ![t] = "a"]
    /\ fac' = [fac EXCEPT ![t] = 0]
    /\ arg' = [arg EXCEPT ![t] = 0]
    /\ loaded' = [loaded EXCEPT ![t] = EmptyMap]
    /\ id' = [id EXCEPT ![t] = 0]
    /\ sh' = [sh EXCEPT ![t] = 0]
    /\ UNCHANGED <<ncalls, seen, published, failed, retry, wrappers>>

\* get_or_create_handle returns the entry e = <<id, h>>, reached by `path`.
ReturnEntry(t, e, path) ==
    /\ Return(t, <<"entry", key[t], e[1], e[2]>>)
    /\ returned' = returned \cup {<<key[t], e[1], e[2], path>>}
    /\ UNCHANGED accessed

\* A step inside a call that moves the thread to position p.
Goto(t, p) ==
    /\ pc' = [pc EXCEPT ![t] = p]
    /\ UNCHANGED <<key, fac, arg, ret, history, wrappers>>

\* Some other thread holds both locks, its factory running or just back.
FactoryRunning(t) ==
    \E u \in Threads \ {t} : lock = u /\ wguard = u /\ pc[u] \in {"factory", "push"}

----------------------------------------------------------------------------
\* get_or_create_handle(key, f)

GetOrCreateCall(t, k) ==
    /\ Call(t, "fast")
    /\ key' = [key EXCEPT ![t] = k]
    /\ fac' = [fac EXCEPT ![t] = ncalls + 1]
    /\ seen' = [seen EXCEPT ![t] = {<<r[2], r[3]>> : r \in {x \in returned : x[1] = k}}]
    /\ retry' = [retry EXCEPT ![t] = k \in failed]
    /\ UNCHANGED arg

\* A bug: the lookup in the published snapshot waits for the writer lock.
FastPathUnderLock(t) ==
    /\ pc[t] = "fast"
    /\ MutexFree(lock)
    /\ LET entry == MapGet(mappings, key[t])
       IN IF entry # {}
          THEN /\ ReturnEntry(t, CHOOSE e \in entry : TRUE, "fast")
               /\ busy' = [busy EXCEPT ![t] = FactoryRunning(t)]
          ELSE /\ Goto(t, "lock")
               /\ UNCHANGED <<loaded, id, sh>>
    /\ UNCHANGED shared

\* Lines 58-60: the lookup in the published snapshot, with no lock taken.
FastPath(t) ==
    /\ pc[t] = "fast"
    /\ LET entry == MapGet(mappings, key[t])
       IN IF entry # {}
          THEN /\ ReturnEntry(t, CHOOSE e \in entry : TRUE, "fast")
               /\ busy' = [busy EXCEPT ![t] = FactoryRunning(t)]
          ELSE /\ Goto(t, "lock")
               /\ UNCHANGED <<loaded, id, sh>>
    /\ UNCHANGED shared

\* A bug: the Mutex lets the thread that holds it lock it again.
LockReentrant(t) ==
    /\ pc[t] = "lock"
    /\ MutexFree(lock) \/ (t \in InnerFrames /\ lock = Outer(t))
    /\ lock' = IF t \in InnerFrames THEN lock ELSE t
    /\ Goto(t, "recheck")
    /\ UNCHANGED <<policy, wpending, mappings, handles, wguard, rguards, poisoned, heap,
                   loaded, id, sh>>

\* Line 63: let guard = self.lock.lock();
Lock(t) ==
    /\ pc[t] = "lock"
    /\ MutexFree(lock)
    /\ lock' = t
    /\ Goto(t, "recheck")
    /\ UNCHANGED <<policy, wpending, mappings, handles, wguard, rguards, poisoned, heap,
                   loaded, id, sh>>

\* Lines 66-69: the second lookup, under the lock, in the snapshot the thread
\* keeps from here on.
Recheck(t) ==
    /\ pc[t] = "recheck"
    /\ LET entry == SecondLookup(mappings, key[t])
       IN IF entry # {}
          THEN /\ ReturnEntry(t, CHOOSE e \in entry : TRUE, "recheck")
               /\ lock' = 0
               /\ UNCHANGED busy
          ELSE /\ loaded' = [loaded EXCEPT ![t] = mappings]
               /\ Goto(t, "write")
               /\ UNCHANGED <<lock, id, sh>>
    /\ UNCHANGED <<policy, wpending, mappings, handles, wguard, rguards, poisoned, heap>>

\* Lines 72-74: self.handles.write() is entered: a writer waits for the table.
WriteRequest(t) ==
    /\ pc[t] = "write"
    /\ wpending' = t
    /\ Goto(t, "write_wait")
    /\ UNCHANGED <<mappings, handles, lock, policy, wguard, rguards, poisoned, heap,
                   loaded, id, sh>>

\* Lines 72-76: let mut wg = self.handles.write().expect(..); let id = wg.len();
\* The guard is handed over when the lock is not poisoned.
WriteLock(t) ==
    /\ pc[t] = "write_wait"
    /\ CanWrite(wguard, rguards)
    /\ ~poisoned
    /\ wguard' = t
    /\ wpending' = 0
    /\ id' = [id EXCEPT ![t] = NextId(handles)]
    /\ Goto(t, "factory")
    /\ UNCHANGED <<mappings, handles, lock, policy, rguards, poisoned, heap, loaded, sh>>

\* Lines 77-78: f(id, &key) returns the handle, which goes into a leaked box.
\* It returns once the call it made into the registry, if any, is back.
CallFactory(t) ==
    /\ pc[t] = "factory"
    /\ pc[Inner(t)] = "idle"
    /\ heap' = Append(heap, Factory(fac[t], id[t], key[t]))
    /\ sh' = [sh EXCEPT ![t] = Alloc(heap)]
    /\ Goto(t, "push")
    /\ UNCHANGED <<mappings, handles, lock, policy, wpending, wguard, rguards,
                   poisoned, loaded, id>>

\* Line 80: wg.push((key.clone(), sh));
PushEntry(t) ==
    /\ pc[t] = "push"
    /\ handles' = Push(handles, key[t], sh[t])
    /\ Goto(t, "dropwg")
    /\ UNCHANGED <<mappings, lock, policy, wpending, wguard, rguards, poisoned, heap,
                   loaded, id, sh>>

\* A bug: the write guard is kept after the append.
KeepWriteGuard(t) ==
    /\ pc[t] = "dropwg"
    /\ Goto(t, "publish")
    /\ UNCHANGED <<mappings, handles, lock, policy, wpending, wguard, rguards,
                   poisoned, heap, loaded, id, sh>>

\* Line 81: drop(wg);
DropWriteGuard(t) ==
    /\ pc[t] = "dropwg"
    /\ wguard' = 0
    /\ Goto(t, "publish")
    /\ UNCHANGED <<mappings, handles, lock, policy, wpending, rguards, poisoned, heap,
                   loaded, id, sh>>

\* A bug: the entry is inserted into the published map in place, so that
\* every thread that holds the old snapshot sees it change.
PublishInPlace(t) ==
    /\ pc[t] = "publish"
    /\ mappings' = NewMappings(loaded[t], key[t], <<id[t], sh[t]>>)
    /\ loaded' = [u \in DOMAIN loaded |-> IF loaded[u] = mappings /\ pc[u] # "idle"
                                    THEN mappings' ELSE loaded[u]]
    /\ published' = Append(published, key[t])
    /\ pc' = [pc EXCEPT ![t] = "unlock"]
    /\ UNCHANGED <<handles, lock, policy, wpending, wguard, rguards, poisoned, heap>>
    /\ UNCHANGED <<key, fac, arg, id, sh, ret>>
    /\ UNCHANGED <<ncalls, returned, seen, accessed, busy, failed, retry, wrappers>>

\* Lines 84-86: the new snapshot, built from the one the thread keeps, is stored.
Publish(t) ==
    /\ pc[t] = "publish"
    /\ mappings' = NewMappings(loaded[t], key[t], <<id[t], sh[t]>>)
    /\ published' = Append(published, key[t])
    /\ pc' = [pc EXCEPT ![t] = "unlock"]
    /\ UNCHANGED <<handles, lock, policy, wpending, wguard, rguards, poisoned, heap>>
    /\ UNCHANGED <<key, fac, arg, loaded, id, sh, ret>>
    /\ UNCHANGED <<ncalls, returned, seen, accessed, busy, failed, retry, wrappers>>

\* Lines 87-89: drop(guard); (id, sh)
Unlock(t) ==
    /\ pc[t] = "unlock"
    /\ lock' = 0
    /\ ReturnEntry(t, <<id[t], sh[t]>>, "create")
    /\ UNCHANGED <<policy, wpending, mappings, handles, wguard, rguards, poisoned, heap, busy>>

----------------------------------------------------------------------------
\* with_handle(id, f)

WithHandleCall(t, i) ==
    /\ Call(t, "wh_read")
    /\ arg' = [arg EXCEPT ![t] = i]
    /\ seen' = [seen EXCEPT ![t] = {}]
    /\ retry' = [retry EXCEPT ![t] = FALSE]
    /\ UNCHANGED <<key, fac>>

\* A bug: the read guard is handed over although the lock is poisoned.
ReadLockIgnoringPoison(t) ==
    /\ pc[t] = "wh_read"
    /\ CanRead(wguard, wpending)
    /\ rguards' = rguards \cup {t}
    /\ Goto(t, "wh_get")
    /\ UNCHANGED <<mappings, handles, lock, policy, wpending, wguard, poisoned, heap,
                   loaded, id, sh>>

\* Lines 97-100: let rg = self.handles.read().expect(..); the guard is handed
\* over when the lock is not poisoned.
ReadLock(t) ==
    /\ pc[t] = "wh_read"
    /\ CanRead(wguard, wpending)
    /\ ~poisoned
    /\ rguards' = rguards \cup {t}
    /\ Goto(t, "wh_get")
    /\ UNCHANGED <<mappings, handles, lock, policy, wpending, wguard, poisoned, heap,
                   loaded, id, sh>>

\* Line 101: rg.get(id).map(|(k, h)| f(k, *h)), and the read guard is dropped.
WithHandleGet(t) ==
    /\ pc[t] = "wh_get"
    /\ LET slot == VecGet(handles, arg[t])
       IN IF slot # {}
          THEN LET e == CHOOSE x \in slot : TRUE
               IN /\ accessed' = [accessed EXCEPT ![t] = Append(accessed[t], e)]
                  /\ Return(t, <<"some", Accessor(e[1], e[2])>>)
          ELSE /\ UNCHANGED accessed
               /\ Return(t, <<"absent">>)
    /\ rguards' = rguards \ {t}
    /\ UNCHANGED <<mappings, handles, lock, policy, wpending, wguard, poisoned, heap,
                   returned, busy>>

----------------------------------------------------------------------------
\* get_handles()

GetHandlesCall(t) ==
    /\ Call(t, "gh_load")
    /\ seen' = [seen EXCEPT ![t] = {}]
    /\ retry' = [retry EXCEPT ![t] = FALSE]
    /\ UNCHANGED <<key, fac, arg>>

\* Line 106: let guard = self.mappings.load();
GetHandlesLoad(t) ==
    /\ pc[t] = "gh_load"
    /\ loaded' = [loaded EXCEPT ![t] = mappings]
    /\ Goto(t, "gh_collect")
    /\ UNCHANGED <<shared, id, sh>>

\* Lines 107-110: the clone of the loaded snapshot, reshaped into key -> handle.
GetHandlesCollect(t) ==
    /\ pc[t] = "gh_collect"
    /\ Return(t, <<"map", Collect(loaded[t])>>)
    /\ UNCHANGED <<shared, returned, accessed, busy>>

----------------------------------------------------------------------------
\* Failures: a panic of the factory, and the panics of the two expect calls.

\* A panic unwinds the call: the thread's locals are dropped, and with them
\* the Mutex guard when the thread holds it (parking_lot's Mutex has no
\* poisoning, the guard's drop unlocks it).
Panic(t, why) ==
    /\ pc' = [pc EXCEPT ![t] = "idle"]
    /\ ret' = [ret EXCEPT ![t] = <<"panic", why>>]
    /\ key' = [key EXCEPT ![t] = "a"]
    /\ fac' = [fac EXCEPT ![t] = 0]
    /\ arg' = [arg EXCEPT ![t] = 0]
    /\ loaded' = [loaded EXCEPT ![t] = EmptyMap]
    /\ id' = [id EXCEPT ![t] = 0]
    /\ sh' = [sh EXCEPT ![t] = 0]
    /\ lock' = IF lock = t THEN 0 ELSE lock
    /\ UNCHANGED <<ncalls, returned, seen, published, accessed, busy, retry, wrappers>>

\* A bug: the entry is appended before the factory runs, and stays when it fails.
FactoryPanicAfterPush(t) ==
    /\ pc[t] = "factory"
    /\ pc[Inner(t)] = "idle"
    /\ handles' = Push(handles, key[t], 0)
    /\ Panic(t, "factory")
    /\ wguard' = 0
    /\ poisoned' = TRUE
    /\ failed' = failed \cup {key[t]}
    /\ UNCHANGED <<mappings, policy, wpending, rguards, heap>>

\* Line 77: f(id, &key) panics.  The unwinding drops wg, which poisons the
\* ShardedLock and releases it, then the snapshot guard and the Mutex guard.
FactoryPanic(t) ==
    /\ pc[t] = "factory"
    /\ pc[Inner(t)] = "idle"
    /\ Panic(t, "factory")
    /\ wguard' = 0
    /\ poisoned' = TRUE
    /\ failed' = failed \cup {key[t]}
    /\ UNCHANGED <<mappings, handles, policy, wpending, rguards, heap>>

\* Lines 72-75: self.handles.write() returns the poison error once the table
\* is free, and expect("handles write lock was poisoned!") panics.
WritePoisoned(t) ==
    /\ pc[t] = "write_wait"
    /\ CanWrite(wguard, rguards)
    /\ poisoned
    /\ wpending' = 0
    /\ Panic(t, "poisoned")
    /\ UNCHANGED <<mappings, handles, policy, wguard, rguards, poisoned, heap, failed>>

\* Lines 97-100: self.handles.read() returns the poison error, and
\* expect("handles read lock was poisoned!") panics.
ReadPoisoned(t) ==
    /\ pc[t] = "wh_read"
    /\ CanRead(wguard, wpending)
    /\ poisoned
    /\ Panic(t, "poisoned")
    /\ UNCHANGED <<mappings, handles, policy, wpending, wguard, rguards, poisoned,
                   heap, failed>>

----------------------------------------------------------------------------
\* A factory that calls back into the registry.  The call runs on the
\* factory's thread, in the frame Inner(t), while the thread holds the Mutex
\* guard and the table's write guard: the statements are those of the three
\* methods, and the locks see the thread that already holds them.

\* get_or_create_handle(k, _) called by the factory of thread Outer(f).
ReenterGetOrCreate(f, k) ==
    /\ pc[Outer(f)] = "factory"
    /\ GetOrCreateCall(f, k)

\* with_handle(i, _) called by the factory of thread Outer(f).
ReenterWithHandle(f, i) ==
    /\ pc[Outer(f)] = "factory"
    /\ WithHandleCall(f, i)

\* get_handles() called by the factory of thread Outer(f).
ReenterGetHandles(f) ==
    /\ pc[Outer(f)] = "factory"
    /\ GetHandlesCall(f)

\* Lines 97-100, on the thread that holds the write guard: the read() of the
\* standard RwLock under the ShardedLock either blocks for ever or panics
\* ("might panic when called if the lock is already held by the current
\* thread"), as the build has it.  The panic unwinds with_handle, the factory
\* and get_or_create_handle, whose write guard poisons the lock.
ReentrantReadPanics(f) ==
    /\ pc[f] = "wh_read"
    /\ wguard = Outer(f)
    /\ pc' = [pc EXCEPT ![f] = "idle", ![Outer(f)] = "idle"]
    /\ ret' = [ret EXCEPT ![f] = <<"panic", "reentrant read">>,
                          ![Outer(f)] = <<"panic", "factory">>]
    /\ key' = [key EXCEPT ![Outer(f)] = "a"]
    /\ fac' = [fac EXCEPT ![Outer(f)] = 0]
    /\ arg' = [arg EXCEPT ![f] = 0]
    /\ loaded' = [loaded EXCEPT ![Outer(f)] = EmptyMap]
    /\ id' = [id EXCEPT ![Outer(f)] = 0]
    /\ lock' = 0
    /\ wguard' = 0
    /\ poisoned' = TRUE
    /\ failed' = failed \cup {key[Outer(f)]}
    /\ UNCHANGED <<mappings, handles, policy, wpending, rguards, heap, sh>>
    /\ UNCHANGED <<ncalls, returned, seen, published, accessed, busy, retry, wrappers>>

----------------------------------------------------------------------------
\* The handle wrappers of src/metrics/src/handles.rs.

\* static NOOP_COUNTER, NOOP_GAUGE, NOOP_HISTOGRAM
NOOP_COUNTER == "NOOP_COUNTER"
NOOP_GAUGE == "NOOP_GAUGE"
NOOP_HISTOGRAM == "NOOP_HISTOGRAM"

\* The concrete capability objects (&'static T) the recorders wrap.
Counters == {"counter1", "counter2"}
Gauges == {"gauge1", "gauge2"}
Histograms == {"histogram1", "histogram2"}

\* The values the callers pass: u64 for a counter, f64 for the others.
CounterValues == {0, 42}
FloatValues == {"-1.5", "NaN"}

\* CounterHandle(&'static dyn Counter), GaugeHandle(..), HistogramHandle(..)
CounterHandle(target) == [kind |-> "counter", target |-> target]
GaugeHandle(target) == [kind |-> "gauge", target |-> target]
HistogramHandle(target) == [kind |-> "histogram", target |-> target]

\* A wrapper is built, by `how`.
NewHandle(w, how) ==
    /\ Len(wrapper) < MaxHandles
    /\ wrapper' = Append(wrapper, w)
    /\ made' = Append(made, how)
    /\ UNCHANGED <<delivered, sent, shared, locals, history>>

\* impl From<&'static T> for CounterHandle / GaugeHandle / HistogramHandle
CounterFrom(from) == NewHandle(CounterHandle(from), <<"from", from>>)
GaugeFrom(from) == NewHandle(GaugeHandle(from), <<"from", from>>)
HistogramFrom(from) == NewHandle(HistogramHandle(from), <<"from", from>>)

\* impl Default for CounterHandle / GaugeHandle / HistogramHandle
CounterDefault == NewHandle(CounterHandle(NOOP_COUNTER), <<"default">>)
GaugeDefault == NewHandle(GaugeHandle(NOOP_GAUGE), <<"default">>)
HistogramDefault == NewHandle(HistogramHandle(NOOP_HISTOGRAM), <<"default">>)

\* self.0.method(value): the wrapper's object receives one call.
Forward(w, kind, method, value) ==
    /\ w \in 1..Len(wrapper)
    /\ wrapper[w].kind = kind
    /\ Len(sent) < MaxSends
    /\ sent' = Append(sent, <<w, method, value>>)
    /\ delivered' = Append(delivered, <<wrapper[w].target, method, value>>)
    /\ UNCHANGED <<wrapper, made, shared, locals, history>>

\* A bug: the wrapper's object receives the call twice.
increment_counter_twice(w, value) ==
    /\ w \in 1..Len(wrapper)
    /\ wrapper[w].kind = "counter"
    /\ Len(sent) < MaxSends
    /\ sent' = Append(sent, <<w, "increment_counter", value>>)
    /\ delivered' = delivered \o <<<<wrapper[w].target, "increment_counter", value>>,
                                   <<wrapper[w].target, "increment_counter", value>>>>
    /\ UNCHANGED <<wrapper, made, shared, locals, history>>

\* CounterHandle::increment_counter
increment_counter(w, value) == Forward(w, "counter", "increment_counter", value)

\* GaugeHandle::update_gauge
update_gauge(w, value) == Forward(w, "gauge", "update_gauge", value)

\* HistogramHandle::record_histogram
record_histogram(w, value) == Forward(w, "histogram", "record_histogram", value)

----------------------------------------------------------------------------
Next ==
    \/ \E t \in Threads, k \in Keys : GetOrCreateCall(t, k)
    \/ \E t \in Threads : FastPath(t)
    \/ \E t \in Threads : Lock(t)
    \/ \E t \in Threads : Recheck(t)
    \/ \E t \in Threads : WriteRequest(t)
    \/ \E t \in Threads : WriteLock(t)
    \/ \E t \in Threads : CallFactory(t)
    \/ \E t \in Threads : PushEntry(t)
    \/ \E t \in Threads : DropWriteGuard(t)
    \/ \E t \in Threads : Publish(t)
    \/ \E t \in Threads : Unlock(t)
    \/ \E t \in Threads, i \in IdArgs : WithHandleCall(t, i)
    \/ \E t \in Threads : ReadLock(t)
    \/ \E t \in Threads : WithHandleGet(t)
    \/ \E t \in Threads : GetHandlesCall(t)
    \/ \E t \in Threads : GetHandlesLoad(t)
    \/ \E t \in Threads : GetHandlesCollect(t)

Spec == Init /\ [][Next]_vars

\* The registry with factories that may panic.
NextPanic ==
    \/ Next
    \/ \E t \in Threads : FactoryPanic(t)
    \/ \E t \in Threads : WritePoisoned(t)
    \/ \E t \in Threads : ReadPoisoned(t)

SpecPanic == Init /\ [][NextPanic]_vars

\* One caller that registers keys of type metrics::Key, one call after another.
NextKey ==
    \/ \E k \in LabelledKeys : GetOrCreateCall(1, k)
    \/ FastPath(1)
    \/ Lock(1)
    \/ Recheck(1)
    \/ WriteRequest(1)
    \/ WriteLock(1)
    \/ CallFactory(1)
    \/ PushEntry(1)
    \/ DropWriteGuard(1)
    \/ Publish(1)
    \/ Unlock(1)

SpecKey == Init /\ [][NextKey]_vars

\* The registry with factories that may call back into it.
NextReentrant ==
    \/ \E t \in Threads, k \in Keys : GetOrCreateCall(t, k)
    \/ \E t \in Threads, i \in IdArgs : WithHandleCall(t, i)
    \/ \E t \in Threads : GetHandlesCall(t)
    \/ \E f \in InnerFrames, k \in Keys : ReenterGetOrCreate(f, k)
    \/ \E f \in InnerFrames, i \in IdArgs : ReenterWithHandle(f, i)
    \/ \E f \in InnerFrames : ReenterGetHandles(f)
    \/ \E f \in InnerFrames : ReentrantReadPanics(f)
    \/ \E t \in Frames : FastPath(t)
    \/ \E t \in Frames : Lock(t)
    \/ \E t \in Frames : Recheck(t)
    \/ \E t \in Frames : WriteRequest(t)
    \/ \E t \in Frames : WriteLock(t)
    \/ \E t \in Frames : CallFactory(t)
    \/ \E t \in Frames : PushEntry(t)
    \/ \E t \in Frames : DropWriteGuard(t)
    \/ \E t \in Frames : Publish(t)
    \/ \E t \in Frames : Unlock(t)
    \/ \E t \in Frames : ReadLock(t)
    \/ \E t \in Frames : WithHandleGet(t)
    \/ \E t \in Frames : GetHandlesLoad(t)
    \/ \E t \in Frames : GetHandlesCollect(t)
    \/ \E t \in Frames : WritePoisoned(t)
    \/ \E t \in Frames : ReadPoisoned(t)

SpecReentrant == Init /\ [][NextReentrant]_vars

\* The callers of the handle wrappers.
NextHandle ==
    \/ \E from \in Counters : CounterFrom(from)
    \/ \E from \in Gauges : GaugeFrom(from)
    \/ \E from \in Histograms : HistogramFrom(from)
    \/ CounterDefault
    \/ GaugeDefault
    \/ HistogramDefault
    \/ \E w \in 1..MaxHandles, value \in CounterValues : increment_counter(w, value)
    \/ \E w \in 1..MaxHandles, value \in FloatValues : update_gauge(w, value)
    \/ \E w \in 1..MaxHandles, value \in FloatValues : record_histogram(w, value)

SpecHandle == Init /\ [][NextHandle]_vars

----------------------------------------------------------------------------
\* What the claims speak of.

\* The factory runs so far for key k: every run leaves one box on the heap.
Runs(k) == {h \in 1..Len(heap) : heap[h].key = k}

\* The box of the first factory run for key k.
FirstRun(k) == CHOOSE h \in Runs(k) : \A g \in Runs(k) : h <= g

\* The paths by which get_or_create_handle has returned an entry for key k.
Paths(k) == {r[4] : r \in {x \in returned : x[1] = k}}

\* The keys with an entry in the table.
TableKeys == {handles[p][1] : p \in 1..Len(handles)}

\* The identifiers the published snapshot holds.
SnapshotIds == {mappings[k][1] : k \in DOMAIN mappings}

----------------------------------------------------------------------------
\* C1: whatever the interleaving of the callers, the factory runs at most once
\* for each key.
C1_FactoryAtMostOnce == \A k \in Keys : Cardinality(Runs(k)) <= 1

\* Two callers raced on one new key: one created it, the other, having missed
\* on the fast path, found it under the lock; the factory ran once.
C1_Witness ==
    \E k \in Keys : {"create", "recheck"} \subseteq Paths(k) /\ Cardinality(Runs(k)) = 1

\* C2: every call for a key returns the same (id, handle), whichever path it
\* returns from, and the handle is the one the first factory run for the key built.
C2_SamePairFromFirstRun ==
    \A r \in returned :
        /\ Runs(r[1]) # {}
        /\ r[3] = FirstRun(r[1])
        /\ r[2] = heap[FirstRun(r[1])].id
        /\ \A q \in returned : q[1] = r[1] => q[2] = r[2] /\ q[3] = r[3]

\* One key has been returned from the fast path, from the lookup under the lock
\* and from the creation.
C2_Witness == \E k \in Keys : Paths(k) = {"fast", "recheck", "create"}

\* C3: the identifiers the registry holds are 0..n-1 for the n distinct keys
\* registered so far, with no gap and no repeat, and no two keys share one.
C3_DenseIds ==
    LET n == Cardinality(TableKeys \cup DOMAIN mappings)
    IN /\ Len(handles) = n
       /\ SnapshotIds \subseteq 0..(n - 1)
       /\ SnapshotIds = 0..(Cardinality(DOMAIN mappings) - 1)
       /\ \A j, k \in DOMAIN mappings : mappings[j][1] = mappings[k][1] => j = k

\* Two keys are registered and published, under the identifiers 0 and 1.
C3_Witness == Len(handles) = 2 /\ SnapshotIds = {0, 1}

\* C4: the identifier of a new key is the length of the table when it is
\* inserted: the factory was given it, the entry sits at that index, the snapshot
\* stores it, the call returns it, and keys published earlier have smaller ones.
C4_IdIsInsertionIndex ==
    /\ \A p \in 1..Len(handles) :
           LET h == handles[p][2]
           IN h \in 1..Len(heap) /\ heap[h].id = p - 1 /\ heap[h].key = handles[p][1]
    /\ \A k \in DOMAIN mappings :
           LET h == mappings[k][2]
           IN h \in 1..Len(heap) /\ heap[h].id = mappings[k][1] /\ heap[h].key = k
    /\ \A r \in returned :
           r[4] = "create" => r[3] \in 1..Len(heap) /\ heap[r[3]].id = r[2]
                              /\ heap[r[3]].key = r[1]
    /\ \A p \in 1..Len(published) :
           published[p] \in DOMAIN mappings /\ mappings[published[p]][1] = p - 1

\* Keys a, b and a again have been registered: the calls returned the
\* identifiers 0, 1 and 0, and the table holds two entries.
C4_Witness ==
    /\ \E h \in 1..Len(heap) : <<"a", 0, h, "create">> \in returned
                               /\ <<"a", 0, h, "fast">> \in returned
    /\ \E h \in 1..Len(heap) : <<"b", 1, h, "create">> \in returned
    /\ Len(handles) = 2

\* C5: a call that starts after some call for its key has returned (id, h)
\* returns (id, h).
C5_LaterCallsAgree ==
    \A t \in Threads :
        (pc[t] = "idle" /\ ret[t][1] = "entry" /\ seen[t] # {})
            => <<ret[t][3], ret[t][4]>> \in seen[t]

\* A call that started after another call for its key had returned has returned
\* in its turn, from the fast path.
C5_Witness ==
    \E t \in Threads :
        /\ pc[t] = "idle" /\ ret[t][1] = "entry" /\ seen[t] # {}
        /\ <<ret[t][2], ret[t][3], ret[t][4], "fast">> \in returned

\* The step thread t takes next inside its call, if it can take one.
Step(t) ==
    \/ FastPath(t) \/ Lock(t) \/ Recheck(t) \/ WriteRequest(t) \/ WriteLock(t)
    \/ CallFactory(t)
    \/ PushEntry(t) \/ DropWriteGuard(t) \/ Publish(t) \/ Unlock(t)
    \/ ReadLock(t) \/ WithHandleGet(t)
    \/ GetHandlesLoad(t) \/ GetHandlesCollect(t)

\* Thread t is inside a call and cannot go on: it waits.
Waiting(t) == pc[t] # "idle" /\ ~ENABLED Step(t)

\* Thread u is on the slow path: it holds the writer lock.
SlowPath(u) ==
    pc[u] \in {"recheck", "write", "write_wait", "factory", "push", "dropwg",
              "publish", "unlock"}

\* Thread u holds the table's write guard.
HoldsTable(u) == pc[u] \in {"factory", "push", "dropwg"}

\* C6: a call for a key that is in the published snapshot can always take its
\* step, whoever holds the locks, and that step returns the published entry and
\* leaves the writer lock and the table lock as they are.
C6_FastPathTakesNoLock ==
    /\ [](\A t \in Threads :
              (pc[t] = "fast" /\ key[t] \in DOMAIN mappings) => ENABLED FastPath(t))
    /\ [][\A t \in Threads :
              (pc[t] = "fast" /\ key[t] \in DOMAIN mappings /\ pc'[t] # "fast")
                  => /\ pc'[t] = "idle"
                     /\ ret'[t] = <<"entry", key[t], mappings[key[t]][1],
                                    mappings[key[t]][2]>>
                     /\ <<lock, wguard, rguards>>' = <<lock, wguard, rguards>>]_vars

\* A call has returned from the fast path while another thread held the writer
\* lock and the table's write guard, its factory running for another key.
C6_Witness ==
    \E t \in Threads : pc[t] = "idle" /\ ret[t][1] = "entry" /\ busy[t]

\* C7, as claimed: a thread on the slow path makes none wait but the callers of
\* get_or_create_handle that missed their key in the published snapshot.
C7_OnlyNewKeyCallersWait ==
    \A t \in Threads :
        (Waiting(t) /\ \E u \in Threads \ {t} : SlowPath(u)) => pc[t] = "lock"

\* C7, amended: a thread on the slow path makes wait the callers of
\* get_or_create_handle that missed their key in the published snapshot, and,
\* while it waits for or holds the table's write guard, the callers of
\* with_handle; the fast path and get_handles never wait.  (The one other wait
\* is the slow path's own, for the read guards of with_handle.)
C7_NewKeyCallersAndTableReadersWait ==
    \A t \in Threads :
        Waiting(t) =>
            \/ pc[t] = "lock" /\ lock \in Threads \ {t} /\ SlowPath(lock)
            \/ pc[t] = "wh_read"
               /\ \/ wguard \in Threads \ {t} /\ HoldsTable(wguard)
                  \/ wpending \in Threads \ {t} /\ pc[wpending] = "write_wait"
            \/ pc[t] = "write_wait" /\ rguards # {}
               /\ \A u \in Threads \ {t} : ~SlowPath(u)

\* A with_handle call waits for the table while another thread's factory runs.
C7_Witness ==
    \E t \in Threads :
        Waiting(t) /\ pc[t] = "wh_read" /\ wguard \in Threads \ {t}
        /\ pc[wguard] = "factory"

\* C8: every entry key -> (id, h) of the published snapshot has its slot in the
\* table, and the slot holds (key, h).
C8_SnapshotWithinTable ==
    \A k \in DOMAIN mappings :
        /\ mappings[k][1] < Len(handles)
        /\ handles[mappings[k][1] + 1] = <<k, mappings[k][2]>>

\* The table holds an entry the snapshot does not hold yet, beside one it holds.
C8_Witness == Len(handles) = 2 /\ Cardinality(DOMAIN mappings) = 1

\* C9: the table and the published snapshot only grow: no step removes,
\* replaces or renumbers an entry.
C9_AppendOnly ==
    [][/\ Len(handles') >= Len(handles)
       /\ \A p \in 1..Len(handles) : handles'[p] = handles[p]
       /\ \A k \in DOMAIN mappings : k \in DOMAIN mappings' /\ mappings'[k] = mappings[k]]_vars

\* A second key has been appended and published after a first one.
C9_Witness == Len(handles) = 2 /\ Cardinality(DOMAIN mappings) = 2

\* C10: with_handle invokes the accessor once, with the slot's key and handle,
\* and returns its result when the id is within the table; it returns absent
\* and invokes nothing when it is not; it changes neither the table nor the
\* snapshot, and it reads the table only while no writer holds it.
C10_WithHandle ==
    /\ [](\A t \in Threads : pc[t] = "wh_get" => wguard = 0 /\ t \in rguards)
    /\ [][\A t \in Threads :
              /\ (pc[t] \in {"wh_read", "wh_get"} /\ pc'[t] # pc[t])
                     => handles' = handles /\ mappings' = mappings
              /\ (pc[t] = "wh_get" /\ pc'[t] = "idle")
                     => IF arg[t] < Len(handles)
                        THEN /\ accessed'[t] = <<handles[arg[t] + 1]>>
                             /\ ret'[t] = <<"some", Accessor(handles[arg[t] + 1][1],
                                                             handles[arg[t] + 1][2])>>
                        ELSE /\ accessed'[t] = <<>>
                             /\ ret'[t] = <<"absent">>]_vars

\* One with_handle call found its slot and another was out of range, while
\* the table held an entry.
C10_Witness ==
    \E t, u \in Threads :
        /\ pc[t] = "idle" /\ ret[t][1] = "some" /\ Len(accessed[t]) = 1
        /\ pc[u] = "idle" /\ ret[u] = <<"absent">> /\ Len(handles) > 0

\* The ids get_or_create_handle has returned so far.
ReturnedIds == {r[2] : r \in returned}

\* The registration in flight that has appended entry i and not yet returned.
Appended(i) ==
    \E u \in Threads : pc[u] \in {"dropwg", "publish", "unlock"} /\ id[u] = i

\* C11, as stated: with_handle yields absent for every id that no
\* get_or_create_handle call has returned so far.
C11_UnreturnedIdIsAbsent ==
    [][\A t \in Threads :
          (pc[t] = "wh_get" /\ pc'[t] = "idle" /\ arg[t] \notin ReturnedIds)
              => ret'[t] = <<"absent">>]_vars

\* C11, amended: for an id that no get_or_create_handle call has returned so
\* far, with_handle yields absent, unless a registration in flight has already
\* appended the entry of that id, and then it yields that entry.
C11_UnappendedIdIsAbsent ==
    [][\A t \in Threads :
          (pc[t] = "wh_get" /\ pc'[t] = "idle" /\ arg[t] \notin ReturnedIds)
              => IF Appended(arg[t])
                 THEN /\ arg[t] = Len(handles) - 1
                      /\ ret'[t] = <<"some", Accessor(handles[arg[t] + 1][1],
                                                      handles[arg[t] + 1][2])>>
                 ELSE ret'[t] = <<"absent">>]_vars

\* with_handle has returned the entry of a registration that has stored its
\* snapshot and has not returned yet: no call has returned that id.
C11_Witness ==
    \E t, u \in Threads :
        /\ pc[u] = "unlock" /\ id[u] \notin ReturnedIds
        /\ pc[t] = "idle" /\ ret[t][1] = "some"
        /\ accessed[t] = <<handles[id[u] + 1]>>

\* The keys whose snapshots have been stored so far.
PublishedKeys == {published[p] : p \in 1..Len(published)}

\* C12: get_handles returns the key -> handle projection of the one snapshot
\* it loaded: that snapshot is the published one at the load, it holds every
\* entry published before the load, registrations that run between the load
\* and the return do not alter it, and every handle in the result is the box
\* that the registration of its key built, appended and published.
C12_GetHandles ==
    [][\A t \in Threads :
          /\ (pc[t] = "gh_load" /\ pc'[t] = "gh_collect")
                 => /\ loaded'[t] = mappings
                    /\ PublishedKeys \subseteq DOMAIN loaded'[t]
          /\ (pc[t] = "gh_collect" /\ pc'[t] = "gh_collect")
                 => loaded'[t] = loaded[t]
          /\ (pc[t] = "gh_collect" /\ pc'[t] = "idle")
                 => /\ ret'[t][1] = "map"
                    /\ DOMAIN ret'[t][2] = DOMAIN loaded[t]
                    /\ \A k \in DOMAIN loaded[t] :
                           /\ ret'[t][2][k] = loaded[t][k][2]
                           /\ ret'[t][2][k] \in Runs(k)
                           /\ handles[loaded[t][k][1] + 1] = <<k, ret'[t][2][k]>>
                           /\ k \in PublishedKeys
          /\ (pc[t] \in {"gh_load", "gh_collect"} /\ pc'[t] # pc[t])
                 => handles' = handles /\ mappings' = mappings]_vars

\* get_handles has returned a snapshot with an entry in it, and a
\* registration that published after the load is not in the result.
C12_Witness ==
    \E t \in Threads :
        /\ pc[t] = "idle" /\ ret[t][1] = "map"
        /\ DOMAIN ret[t][2] # {}
        /\ DOMAIN ret[t][2] # DOMAIN mappings

\* C20: the writer lock is the one admission gate of the slow path: at most
\* one thread is between taking it and releasing it, the table's write guard
\* is requested and held only by the thread that holds the writer lock, and
\* the snapshot that thread keeps and will extend when it publishes is the
\* published one, so that no publication is lost.
C20_WriterLockIsTheGate ==
    /\ Cardinality({t \in Threads : SlowPath(t)}) <= 1
    /\ \A t \in Threads : SlowPath(t) <=> lock = t
    /\ wguard # 0 => lock = wguard
    /\ wpending # 0 => lock = wpending
    /\ \A t \in Threads :
           pc[t] \in {"write", "write_wait", "factory", "push", "dropwg", "publish"}
               => loaded[t] = mappings
    /\ PublishedKeys = DOMAIN mappings

\* A thread is about to extend a snapshot that holds an entry already, while
\* another thread waits for the writer lock with a key it did not find.
C20_Witness ==
    \E t, u \in Threads :
        /\ pc[t] = "publish" /\ DOMAIN loaded[t] # {}
        /\ pc[u] = "lock" /\ lock = t

\* C13: when the factory fails inside get_or_create_handle(K, f), the call
\* ends with that failure and the registry gains no entry for K: no step of
\* the call, the failing one included, changes the table or the published
\* snapshot, and K is in neither afterwards.
C13_FailedFactoryLeavesNoEntry ==
    /\ [](\A k \in failed : k \notin TableKeys /\ k \notin DOMAIN mappings)
    /\ [][\A t \in Threads :
              /\ (pc[t] = "factory" /\ pc'[t] = "idle")
                     => /\ ret'[t] = <<"panic", "factory">>
                        /\ key[t] \in failed'
                        /\ handles' = handles
                        /\ mappings' = mappings
                        /\ heap' = heap
              /\ (pc[t] \in {"fast", "lock", "recheck", "write", "write_wait"}
                     /\ pc'[t] # pc[t])
                     => handles' = handles /\ mappings' = mappings]_vars

\* A factory has failed in a registry that holds an entry of another key.
C13_Witness ==
    \E t \in Threads :
        /\ pc[t] = "idle" /\ ret[t] = <<"panic", "factory">>
        /\ failed # {}
        /\ Len(handles) = 1 /\ Cardinality(DOMAIN mappings) = 1

\* C14, as stated: a get_or_create_handle(K, g) call made after the factory
\* of K failed runs g, registers K and returns its entry.
C14_RetryRegisters ==
    \A t \in Threads :
        (pc[t] = "idle" /\ retry[t])
            => /\ ret[t][1] = "entry"
               /\ ret[t][3] = Len(handles) - 1
               /\ ret[t][4] \in 1..Len(heap)

\* C15, as stated: once a holder has failed while it held the writer lock or
\* the table lock, no later operation gets past the acquisition of that lock.
\* The one holder that can fail is a thread whose factory panics, and it holds
\* both locks.
C15_FailedHolderIsFatal ==
    failed # {} =>
        \A t \in Threads :
            /\ ~SlowPath(t)
            /\ pc[t] \notin {"wh_get"}

\* C15, amended: the table lock is poisoned exactly when the holder of its
\* write guard has failed; from then on every operation that acquires the
\* table lock, for reading or for writing, fails there and neither reads nor
\* modifies the table.  The writer lock has no poison state: the failing
\* holder releases it, and later callers take it as usual.
C15_PoisonedTableIsFatal ==
    /\ [](poisoned <=> failed # {})
    /\ [](poisoned => \A t \in Threads : pc[t] \notin {"factory", "push", "dropwg", "wh_get"})
    /\ [][\A t \in Threads :
              /\ (poisoned /\ pc[t] \in {"write_wait", "wh_read"} /\ pc'[t] # pc[t])
                     => /\ pc'[t] = "idle"
                        /\ ret'[t] = <<"panic", "poisoned">>
                        /\ handles' = handles
                        /\ mappings' = mappings
              /\ (pc[t] = "factory" /\ pc'[t] = "idle")
                     => poisoned' /\ lock' = 0 /\ wguard' = 0]_vars

\* After a factory failure one call has failed at the poisoned table lock
\* and another thread has taken the writer lock.
C15_Witness ==
    \E t, u \in Threads :
        /\ failed # {}
        /\ pc[t] = "idle" /\ ret[t] = <<"panic", "poisoned">>
        /\ pc[u] = "recheck" /\ lock = u

\* The registry under a fair scheduler: a thread that can take its next step
\* is not held back for ever (the operating system runs every runnable
\* thread, and a thread blocked in lock(), write() or read() is woken when
\* the lock is handed over).  No factory panics, so no lock is poisoned, and
\* factories and accessors return without calling into the registry.
FairSpec == Spec /\ \A t \in Threads : WF_vars(Step(t))

\* C16: under fair scheduling every call of get_or_create_handle, with_handle
\* and get_handles returns.  The locks are taken in one order: the table's
\* write guard is requested and held only under the writer lock and is
\* released before the snapshot is stored, and a reader of the table holds
\* nothing else.
C16_EveryCallReturns ==
    /\ \A t \in Threads : (pc[t] # "idle") ~> (pc[t] = "idle")
    /\ [](\A t \in Threads :
              /\ (wguard = t \/ wpending = t) => lock = t
              /\ pc[t] \in {"publish", "unlock"} => (wguard # t /\ wpending # t)
              /\ t \in rguards => (lock # t /\ wguard = 0))

\* Every call the bound allows has returned, one of them after it had waited
\* for the writer lock and one after it had read the table.
C16_Witness ==
    /\ ncalls = MaxCalls
    /\ \A t \in Threads : pc[t] = "idle"
    /\ \E r \in returned : r[4] = "recheck"
    /\ \E t \in Threads : ret[t][1] = "some"

\* C17: keys that differ in their labels are distinct registry entries: a
\* name with labels and the same name with other labels, with the same
\* labels in another order or with none get different ids and different
\* handles.
C17_LabelsDistinguishKeys ==
    \A r, q \in returned :
        (name(r[1]) = name(q[1]) /\ labels(r[1]) # labels(q[1]))
            => r[2] # q[2] /\ r[3] # q[3]

\* One name has been registered without labels and with the same two labels
\* in both orders, under three ids.
C17_Witness ==
    \E r, q, w \in returned :
        /\ name(r[1]) = name(q[1]) /\ name(q[1]) = name(w[1])
        /\ r[1].labels = None
        /\ Len(labels(q[1])) = 2 /\ Len(labels(w[1])) = 2
        /\ labels(q[1]) = <<labels(w[1])[2], labels(w[1])[1]>>
        /\ labels(q[1]) # labels(w[1])
        /\ Cardinality({r[2], q[2], w[2]}) = 3

\* C18, as stated: two keys are equal, and are one registry entry, exactly
\* when they have the same name and the same sequence of labels, whatever
\* way they were built.
C18_EqualityIsNameAndLabels ==
    \A r, q \in returned :
        /\ KeyEq(r[1], q[1]) <=> (name(r[1]) = name(q[1]) /\ labels(r[1]) = labels(q[1]))
        /\ (name(r[1]) = name(q[1]) /\ labels(r[1]) = labels(q[1])) => r[2] = q[2]

\* The shared no-op object of a wrapper's kind.
Noop(kind) ==
    CASE kind = "counter" -> NOOP_COUNTER
      [] kind = "gauge" -> NOOP_GAUGE
      [] kind = "histogram" -> NOOP_HISTOGRAM

\* The method of a wrapper's kind.
Method(kind) ==
    CASE kind = "counter" -> "increment_counter"
      [] kind = "gauge" -> "update_gauge"
      [] kind = "histogram" -> "record_histogram"

\* C19: every call made on a handle wrapper reaches, once and with the value
\* unchanged, the object the wrapper was built from; a default wrapper refers
\* to the shared no-op object of its kind; and a wrapper never changes the
\* object it refers to.
C19_WrapperForwards ==
    /\ [](/\ Len(delivered) = Len(sent)
          /\ Len(made) = Len(wrapper)
          /\ \A p \in 1..Len(sent) :
                 /\ sent[p][1] \in 1..Len(wrapper)
                 /\ sent[p][2] = Method(wrapper[sent[p][1]].kind)
                 /\ delivered[p] = <<wrapper[sent[p][1]].target, sent[p][2], sent[p][3]>>
          /\ \A w \in 1..Len(wrapper) :
                 wrapper[w].target = IF made[w] = <<"default">>
                                     THEN Noop(wrapper[w].kind)
                                     ELSE made[w][2])
    /\ [][\A w \in 1..Len(wrapper) : wrapper'[w] = wrapper[w]]_vars

\* A wrapper built from a concrete object and a default wrapper have each
\* forwarded a call.
C19_Witness ==
    \E p, q \in 1..Len(delivered) :
        /\ made[sent[p][1]] = <<"default">>
        /\ delivered[p][1] = Noop(wrapper[sent[p][1]].kind)
        /\ made[sent[q][1]] # <<"default">>
        /\ delivered[q][1] = made[sent[q][1]][2]

\* C21: a store of a new snapshot leaves every snapshot published before as
\* it was: the snapshot a get_handles caller or a slow-path caller loaded
\* before the store has the same entries after it, and the new snapshot is
\* the previous one and exactly one more entry, that of the new key with its
\* id and its handle.
C21_PublishLeavesOldSnapshots ==
    [][mappings' # mappings =>
          \E t \in Threads :
              /\ pc[t] = "publish" /\ pc'[t] = "unlock"
              /\ key[t] \notin DOMAIN mappings
              /\ DOMAIN mappings' = (DOMAIN mappings) \cup {key[t]}
              /\ mappings'[key[t]] = <<id[t], sh[t]>>
              /\ \A j \in DOMAIN mappings : mappings'[j] = mappings[j]
              /\ \A u \in Threads : loaded'[u] = loaded[u]]_vars

\* A get_handles caller holds a snapshot with an entry in it, loaded before a
\* store that added one entry to the published snapshot.
C21_Witness ==
    \E u \in Threads :
        /\ pc[u] = "gh_collect"
        /\ DOMAIN loaded[u] # {}
        /\ \E k \in DOMAIN mappings : DOMAIN mappings = (DOMAIN loaded[u]) \cup {k}
        /\ DOMAIN mappings # DOMAIN loaded[u]

\* The other threads that wait for the writer lock stay where they are.
OthersStayBlocked == \A u \in Threads : pc[u] = "lock" => pc'[u] = "lock"

\* C22, as stated: a call of get_or_create_handle for an unpublished key or
\* of with_handle made by a running factory never moves again, the outer call
\* stays in its factory with the writer lock held and the threads that wait
\* for that lock stay blocked; the one call of a factory into the registry
\* that returns is get_or_create_handle for a published key.
C22_ReentryDeadlocks ==
    [][\A f \in InnerFrames :
          /\ pc[f] \in {"lock", "wh_read"}
                 => /\ pc'[f] = pc[f]
                    /\ pc'[Outer(f)] = "factory"
                    /\ lock' = Outer(f)
                    /\ OthersStayBlocked
          /\ (pc[f] # "idle" /\ pc'[f] = "idle")
                 => ret'[f][1] = "entry" /\ key[f] \in DOMAIN mappings]_vars

\* C22, amended: get_or_create_handle for an unpublished key, called by a
\* running factory, never moves past the writer lock: the outer call stays in
\* its factory with both locks held and the threads that wait for the writer
\* lock stay blocked.  with_handle called by a running factory never reaches
\* the table: it stays blocked in the same way, or its read() panics, and the
\* panic ends the outer call as a failed factory does, with the table lock
\* poisoned and the registry unchanged.  The calls that return to the factory
\* are get_or_create_handle for a published key and get_handles, which take
\* no lock and are never blocked.
C22_ReentryBlocksOrPanics ==
    /\ [](\A f \in InnerFrames :
              /\ pc[f] # "idle" => pc[Outer(f)] = "factory" /\ lock = Outer(f)
              /\ pc[f] \in {"idle", "fast", "lock", "wh_read", "gh_load", "gh_collect"}
              /\ pc[f] \in {"fast", "gh_load", "gh_collect"} => ENABLED Step(f))
    /\ [][\A f \in InnerFrames :
              /\ pc[f] = "lock"
                     => /\ pc'[f] = "lock"
                        /\ pc'[Outer(f)] = "factory"
                        /\ lock' = Outer(f) /\ wguard' = Outer(f)
                        /\ OthersStayBlocked
              /\ pc[f] = "wh_read"
                     => \/ /\ pc'[f] = "wh_read"
                           /\ pc'[Outer(f)] = "factory"
                           /\ lock' = Outer(f) /\ wguard' = Outer(f)
                           /\ OthersStayBlocked
                        \/ /\ pc'[f] = "idle" /\ ret'[f][1] = "panic"
                           /\ pc'[Outer(f)] = "idle" /\ ret'[Outer(f)][1] = "panic"
                           /\ poisoned' /\ lock' = 0 /\ wguard' = 0
                           /\ handles' = handles /\ mappings' = mappings
              /\ (pc[f] # "idle" /\ pc'[f] = "idle" /\ ret'[f][1] # "panic")
                     => \/ ret'[f][1] = "entry" /\ key[f] \in DOMAIN mappings
                        \/ ret'[f][1] = "map"]_vars

\* A factory has called get_or_create_handle for an unpublished key and is
\* stuck at the writer lock its thread holds, and another thread waits for
\* that lock with a new key.
C22_Witness ==
    \E f \in InnerFrames, u \in Threads :
        /\ pc[f] = "lock" /\ key[f] \notin DOMAIN mappings
        /\ lock = Outer(f) /\ pc[Outer(f)] = "factory"
        /\ pc[u] = "lock" /\ u # Outer(f)

====
